---- MODULE Spec2Model ----
(***************************************************************************)
(* Model of the HTTP request-line parser (src/http/request.rs) and of the *)
(* blocking accept/read/parse/dispatch/send loop (src/server.rs).         *)
(* Buffers and string slices are sequences of bytes (0..255); a &str is a *)
(* byte sequence that passed str::from_utf8.                               *)
(***************************************************************************)
EXTENDS Integers, Sequences, FiniteSets, TLC

VARIABLES buf, result, text, word,
          pc, buffer, nread, request, conns, outcome, calls, sent, out

parserVars == <<buf, result, text, word>>
serverVars == <<pc, buffer, nread, request, conns, outcome, calls, sent, out>>
vars == <<buf, result, text, word, pc, buffer, nread, request, conns, outcome, calls, sent, out>>

----
(* Bounds of the model *)
MaxPairs == 3
MaxConns == 3

----
(* Bytes the code compares against *)
SP == 32
CR == 13
QMARK == 63
AMP == 38
EQ == 61
BUFFER_SIZE == 1024

LF == <<10>>
EACUTE == <<195, 169>>
EMOJI == <<240, 159, 152, 128>>
BADBYTE == <<255>>

GET == <<71, 69, 84>>
POST == <<80, 79, 83, 84>>
PUT == <<80, 85, 84>>
DELETE == <<68, 69, 76, 69, 84, 69>>
HEAD == <<72, 69, 65, 68>>
CONNECT == <<67, 79, 78, 78, 69, 67, 84>>
OPTIONS == <<79, 80, 84, 73, 79, 78, 83>>
TRACE == <<84, 82, 65, 67, 69>>
PATCH == <<80, 65, 84, 67, 72>>
HTTP11 == <<72, 84, 84, 80, 47, 49, 46, 49>>
HTTP10 == <<72, 84, 84, 80, 47, 49, 46, 48>>

Methods == {GET, POST, PUT, DELETE, HEAD, CONNECT, OPTIONS, TRACE, PATCH}

----
(* str::from_utf8: the whole buffer must be well-formed UTF-8 *)
IsCont(b, i) == i <= Len(b) /\ b[i] >= 128 /\ b[i] <= 191

InRange(b, i, lo, hi) == i <= Len(b) /\ b[i] >= lo /\ b[i] <= hi

\* number of bytes of the well-formed character starting at b[i], 0 if none
Utf8Width(b, i) ==
  LET c == b[i] IN
  IF c < 128 THEN 1
  ELSE IF c >= 194 /\ c <= 223 THEN (IF IsCont(b, i + 1) THEN 2 ELSE 0)
  ELSE IF c = 224 THEN (IF InRange(b, i + 1, 160, 191) /\ IsCont(b, i + 2) THEN 3 ELSE 0)
  ELSE IF c = 237 THEN (IF InRange(b, i + 1, 128, 159) /\ IsCont(b, i + 2) THEN 3 ELSE 0)
  ELSE IF c >= 225 /\ c <= 239 THEN (IF IsCont(b, i + 1) /\ IsCont(b, i + 2) THEN 3 ELSE 0)
  ELSE IF c = 240 THEN (IF InRange(b, i + 1, 144, 191) /\ IsCont(b, i + 2) /\ IsCont(b, i + 3) THEN 4 ELSE 0)
  ELSE IF c = 244 THEN (IF InRange(b, i + 1, 128, 143) /\ IsCont(b, i + 2) /\ IsCont(b, i + 3) THEN 4 ELSE 0)
  ELSE IF c >= 241 /\ c <= 243 THEN (IF IsCont(b, i + 1) /\ IsCont(b, i + 2) /\ IsCont(b, i + 3) THEN 4 ELSE 0)
  ELSE 0

\* every byte either starts a well-formed character or is a continuation
\* byte of the well-formed character that starts 1, 2 or 3 bytes before it
from_utf8_ok(b) ==
  \A i \in 1..Len(b) :
    IF b[i] >= 128 /\ b[i] <= 191
    THEN \E k \in 1..3 :
           /\ i - k >= 1
           /\ ~(b[i - k] >= 128 /\ b[i - k] <= 191)
           /\ Utf8Width(b, i - k) > k
    ELSE Utf8Width(b, i) > 0

----
(* get_next_word *)
\* variant: only the space ends a token
IsDelim_space_only(c) == c = SP

IsDelim(c) == c = SP \/ c = CR

\* request.chars().enumerate(): the 0-based CHARACTER index of the first
\* delimiter (the number of characters before it), or -1 when the iteration
\* ends without finding one.
FirstDelimCharIndex(s) ==
  LET ds == {p \in 1..Len(s) : IsDelim(s[p])} IN
  IF ds = {} THEN -1
  ELSE LET d == CHOOSE p \in ds : \A q \in ds : p <= q
       IN Cardinality({p \in 1..(d - 1) : ~(s[p] >= 128 /\ s[p] <= 191)})

\* str::is_char_boundary for a 0-based byte index
is_char_boundary(s, i) ==
  \/ i = 0
  \/ i = Len(s)
  \/ (i < Len(s) /\ ~(s[i + 1] >= 128 /\ s[i + 1] <= 191))

NoWord == [kind |-> "NotRun", word |-> <<>>, rest |-> <<>>, of |-> <<>>]

\* Some((&request[..i], &request[i + 1..])) with i the character index used as
\* a byte index; slicing off a character boundary panics.
get_next_word(s) ==
  LET i == FirstDelimCharIndex(s) IN
  IF i = -1 THEN [kind |-> "None", word |-> <<>>, rest |-> <<>>, of |-> s]
  ELSE IF ~is_char_boundary(s, i) \/ ~is_char_boundary(s, i + 1)
       THEN [kind |-> "Panic", word |-> <<>>, rest |-> <<>>, of |-> s]
       ELSE [kind |-> "Some", word |-> SubSeq(s, 1, i),
             rest |-> SubSeq(s, i + 2, Len(s)), of |-> s]

----
(* Method::from_str: exact, case-sensitive match against the verb spellings *)
method_parse(s) == IF s \in Methods THEN [ok |-> TRUE, method |-> s]
                   ELSE [ok |-> FALSE, method |-> <<>>]

----
(* QueryString::from: split on '&', each pair on its first '=' *)
IndexesOf(s, c) == {i \in 1..Len(s) : s[i] = c}

Min(S) == CHOOSE x \in S : \A y \in S : x <= y

\* str::find: 0-based byte index of the first c, -1 when absent
find(s, c) == IF IndexesOf(s, c) = {} THEN -1 ELSE Min(IndexesOf(s, c)) - 1

\* str::split('&'): the pieces between separators, empty pieces included
RECURSIVE split(_, _)
split(s, c) ==
  LET i == find(s, c) IN
  IF i = -1 THEN <<s>>
  ELSE <<SubSeq(s, 1, i)>> \o split(SubSeq(s, i + 2, Len(s)), c)

pair_key(p) == IF find(p, EQ) = -1 THEN p ELSE SubSeq(p, 1, find(p, EQ))

pair_val(p) == IF find(p, EQ) = -1 THEN <<>> ELSE SubSeq(p, find(p, EQ) + 2, Len(p))

Single(v) == [tag |-> "Single", vals |-> <<v>>]

Multiple(vs) == [tag |-> "Multiple", vals |-> vs]

\* data.entry(key).and_modify(..).or_insert(Single(val))
entry_insert(data, key, val) ==
  IF key \in DOMAIN data
  THEN [data EXCEPT ![key] = Multiple(Append(data[key].vals, val))]
  ELSE [k \in (DOMAIN data) \cup {key} |-> IF k = key THEN Single(val) ELSE data[k]]

EmptyMap == [k \in {} |-> Single(<<>>)]

RECURSIVE insert_all(_, _, _)
insert_all(data, pairs, n) ==
  IF n > Len(pairs) THEN data
  ELSE insert_all(entry_insert(data, pair_key(pairs[n]), pair_val(pairs[n])), pairs, n + 1)

QueryString_from(s) == insert_all(EmptyMap, split(s, AMP), 1)

----
(* Request::try_from *)
NoQuery == [present |-> FALSE, raw |-> <<>>, data |-> EmptyMap]

SomeQuery(s) == [present |-> TRUE, raw |-> s, data |-> QueryString_from(s)]

NotParsed == [kind |-> "NotParsed", error |-> "", method |-> <<>>, path |-> <<>>,
              query_string |-> NoQuery]

Err(e) == [kind |-> "Err", error |-> e, method |-> <<>>, path |-> <<>>,
           query_string |-> NoQuery]

Panicked == [kind |-> "Panic", error |-> "", method |-> <<>>, path |-> <<>>,
             query_string |-> NoQuery]

Ok(m, p, q) == [kind |-> "Ok", error |-> "", method |-> m, path |-> p, query_string |-> q]

\* variant: the path token is cut at its last '?'
split_path_last_qmark(m, path) ==
  LET qs == IndexesOf(path, QMARK) IN
  IF qs # {}
  THEN LET i == (CHOOSE x \in qs : \A y \in qs : y <= x) - 1
       IN Ok(m, SubSeq(path, 1, i), SomeQuery(SubSeq(path, i + 2, Len(path))))
  ELSE Ok(m, path, NoQuery)

\* variant: the query string is built from &path[i..], '?' included
split_path_keep_qmark(m, path) ==
  LET i == find(path, QMARK) IN
  IF i # -1 THEN Ok(m, SubSeq(path, 1, i), SomeQuery(SubSeq(path, i + 1, Len(path))))
  ELSE Ok(m, path, NoQuery)

\* lines 66-78: split the path token at its first '?'
split_path(m, path) ==
  LET i == find(path, QMARK) IN
  IF i # -1 THEN Ok(m, SubSeq(path, 1, i), SomeQuery(SubSeq(path, i + 2, Len(path))))
  ELSE Ok(m, path, NoQuery)

\* variant: an empty path token is rejected as InvalidRequest
try_from_reject_empty_path(b) ==
  IF ~from_utf8_ok(b) THEN Err("InvalidEncoding")
  ELSE LET w1 == get_next_word(b) IN
  IF w1.kind = "Panic" THEN Panicked
  ELSE IF w1.kind = "None" THEN Err("InvalidRequest")
  ELSE LET w2 == get_next_word(w1.rest) IN
  IF w2.kind = "Panic" THEN Panicked
  ELSE IF w2.kind = "None" \/ w2.word = <<>> THEN Err("InvalidRequest")
  ELSE LET w3 == get_next_word(w2.rest) IN
  IF w3.kind = "Panic" THEN Panicked
  ELSE IF w3.kind = "None" THEN Err("InvalidRequest")
  ELSE IF w3.word # HTTP11 THEN Err("InvalidProtocol")
  ELSE LET m == method_parse(w1.word) IN
  IF ~m.ok THEN Err("InvalidMethod")
  ELSE split_path(m.method, w2.word)

try_from(b) ==
  IF ~from_utf8_ok(b) THEN Err("InvalidEncoding")
  ELSE LET w1 == get_next_word(b) IN
  IF w1.kind = "Panic" THEN Panicked
  ELSE IF w1.kind = "None" THEN Err("InvalidRequest")
  ELSE LET w2 == get_next_word(w1.rest) IN
  IF w2.kind = "Panic" THEN Panicked
  ELSE IF w2.kind = "None" THEN Err("InvalidRequest")
  ELSE LET w3 == get_next_word(w2.rest) IN
  IF w3.kind = "Panic" THEN Panicked
  ELSE IF w3.kind = "None" THEN Err("InvalidRequest")
  ELSE IF w3.word # HTTP11 THEN Err("InvalidProtocol")
  ELSE LET m == method_parse(w1.word) IN
  IF ~m.ok THEN Err("InvalidMethod")
  ELSE split_path(m.method, w2.word)

----
(* Input buffers of the parser specification *)
Delims == {<<SP>>, <<CR>>}

MethodFrags == {GET, POST, <<103, 101, 116>>, <<>>, EACUTE, EACUTE \o <<97>>}

PathFrags == {<<47, 97>>, <<>>, <<47, 97, QMARK, 107, EQ, 118>>, <<QMARK>>,
              <<47, 97, QMARK, 98, QMARK, 99>>, <<47>> \o EACUTE,
              EMOJI \o EMOJI \o EMOJI \o <<47, 120>> \o HTTP11}

ProtoFrags == {HTTP11, HTTP10, <<>>}

Tails == {<<>>, LF, BADBYTE, EACUTE \o <<CR>>, LF \o <<72, 58, SP, 118, CR>> \o LF}

StructInputs ==
  {m \o d1 \o p \o d2 \o v \o d3 \o t :
     m \in MethodFrags, d1 \in Delims \cup {<<>>}, p \in PathFrags,
     d2 \in Delims \cup {<<>>}, v \in ProtoFrags, d3 \in Delims \cup {<<>>},
     t \in Tails}

PairFrags == {<<107>>, <<107, EQ, 118>>, <<107, EQ, 119>>, <<106, EQ, 118>>, <<>>,
              <<107, EQ, 118, EQ, 119>>, <<EQ, 118>>}

RECURSIVE Queries(_)
Queries(n) ==
  IF n = 0 THEN {}
  ELSE PairFrags \cup Queries(n - 1)
       \cup {q \o <<AMP>> \o p : q \in Queries(n - 1), p \in PairFrags}

QueryInputs ==
  {GET \o <<SP, 47, 115, QMARK>> \o q \o <<SP>> \o HTTP11 \o <<CR>> \o LF :
     q \in Queries(MaxPairs)}

Inputs == StructInputs \cup QueryInputs

----
(* Parser specification: a buffer is parsed by Request::try_from, and its  *)
(* decoded text is tokenized by repeated get_next_word calls.              *)
ServerIdle ==
  /\ pc = "accept" /\ buffer = <<>> /\ nread = -1 /\ request = <<>> /\ conns = 0
  /\ outcome = NotParsed /\ calls = <<>> /\ sent = 0 /\ out = <<>>

Init ==
  /\ buf \in Inputs
  /\ result = NotParsed
  /\ text = buf
  /\ word = NoWord
  /\ ServerIdle

TryFrom ==
  /\ result.kind = "NotParsed"
  /\ result' = try_from(buf)
  /\ UNCHANGED <<buf, text, word>>
  /\ UNCHANGED serverVars

GetNextWord ==
  /\ result.kind # "NotParsed"
  /\ from_utf8_ok(buf)
  /\ word.kind \in {"NotRun", "Some"}
  /\ word' = get_next_word(text)
  /\ text' = IF word'.kind = "Some" THEN word'.rest ELSE text
  /\ UNCHANGED <<buf, result>>
  /\ UNCHANGED serverVars

Next == TryFrom \/ GetNextWord

Spec == Init /\ [][Next]_vars

----
(* Reference notions used by the properties: the request line as bytes    *)
Range(s) == {s[i] : i \in 1..Len(s)}

DelimPos(s) == {i \in 1..Len(s) : s[i] = 32 \/ s[i] = 13}

FirstIn(S) == CHOOSE x \in S : \A y \in S : x <= y

Delim1(s) == FirstIn(DelimPos(s))

Delim2(s) == FirstIn({i \in DelimPos(s) : i > Delim1(s)})

Delim3(s) == FirstIn({i \in DelimPos(s) : i > Delim2(s)})

MethodToken(s) == SubSeq(s, 1, Delim1(s) - 1)

ProtocolToken(s) == SubSeq(s, Delim2(s) + 1, Delim3(s) - 1)

\* the three scans Request::try_from performs, as far as they get
Scan1(b) == get_next_word(b)

Scan2(b) == IF Scan1(b).kind = "Some" THEN get_next_word(Scan1(b).rest) ELSE NoWord

Scan3(b) == IF Scan2(b).kind = "Some" THEN get_next_word(Scan2(b).rest) ELSE NoWord

Parsed == result.kind # "NotParsed"

----
\* C1: the first failing step is reported, in the order encoding, tokenization
\* (fewer than three delimiters), protocol (third token is not HTTP/1.1),
\* method (first token is not a verb), for every input buffer.
C1_FailureOrder ==
  Parsed =>
    IF ~from_utf8_ok(buf) THEN result = Err("InvalidEncoding")
    ELSE IF Cardinality(DelimPos(buf)) < 3 THEN result = Err("InvalidRequest")
    ELSE IF ProtocolToken(buf) # HTTP11 THEN result = Err("InvalidProtocol")
    ELSE IF MethodToken(buf) \notin Methods THEN result = Err("InvalidMethod")
    ELSE TRUE

\* C2: for every input buffer Request::try_from returns a Request or one of the
\* four ParseError values and never panics.
C2_NeverPanics ==
  Parsed =>
    \/ result.kind = "Ok"
    \/ /\ result.kind = "Err"
       /\ result.error \in {"InvalidRequest", "InvalidEncoding", "InvalidProtocol",
                            "InvalidMethod"}

\* C3: for text with a space or '\r', get_next_word returns the text before the
\* first delimiter and the text after it (token + delimiter + remainder is the
\* input, the token holds no delimiter); for text with neither it returns None.
C3_GetNextWord ==
  word.kind # "NotRun" =>
    LET s == word.of IN
    IF DelimPos(s) = {} THEN word.kind = "None"
    ELSE LET d == Delim1(s) IN
         /\ word.kind = "Some"
         /\ word.word = SubSeq(s, 1, d - 1)
         /\ word.rest = SubSeq(s, d + 1, Len(s))
         /\ word.word \o <<s[d]>> \o word.rest = s
         /\ DelimPos(word.word) = {}

\* C4: in every returned Request the path holds no '?'; a raw path token with
\* '?' is cut at its first '?' and everything after it becomes the query
\* string; a raw path token without '?' is the path and no query string exists.
C4_PathQuerySplit ==
  result.kind = "Ok" =>
    LET raw == Scan2(buf).word
        qs == {i \in 1..Len(raw) : raw[i] = 63}
    IN /\ 63 \notin Range(result.path)
       /\ IF qs # {}
          THEN /\ result.path = SubSeq(raw, 1, FirstIn(qs) - 1)
               /\ result.query_string.present
               /\ result.query_string.raw = SubSeq(raw, FirstIn(qs) + 1, Len(raw))
               /\ result.query_string.data = QueryString_from(result.query_string.raw)
          ELSE /\ result.path = raw
               /\ ~result.query_string.present

C4_Witness ==
  /\ result.kind = "Ok"
  /\ result.query_string.present
  /\ 63 \in Range(result.query_string.raw)
  /\ Len(result.path) > 0

\* C5 (as stated): buffers that agree up to and including the delimiter ending
\* the protocol token parse to the same result, whatever bytes follow.
RequestLine(b) == SubSeq(b, 1, Delim3(b))

C5_OnlyRequestLine ==
  (Parsed /\ Cardinality(DelimPos(buf)) >= 3) =>
    \A t \in Tails : try_from(RequestLine(buf) \o t) = result

\* C5 (amended): buffers that agree up to and including the delimiter ending
\* the protocol token, and are both valid UTF-8 or both not, parse to the same
\* result; a non-UTF-8 byte after the request line yields InvalidEncoding.
C5_OnlyRequestLineUtf8 ==
  (Parsed /\ Cardinality(DelimPos(buf)) >= 3) =>
    \A t \in Tails :
      LET other == RequestLine(buf) \o t IN
      /\ (from_utf8_ok(other) <=> from_utf8_ok(buf)) => try_from(other) = result
      /\ ~from_utf8_ok(other) => try_from(other) = Err("InvalidEncoding")

C5_Witness ==
  /\ result.kind = "Ok"
  /\ Cardinality(DelimPos(buf)) > 3
  /\ Len(buf) > Delim3(buf) + 1

\* C7: the query mapping holds, per key, the values of its pairs in encounter
\* order: Single for one occurrence, Multiple for two or more; a pair without
\* '=' is a key with the empty value; a pair is split at its first '='; the
\* build never fails, so a request with '?' in its path still parses.
PairStarts(q) == {1} \cup {i + 1 : i \in {j \in 1..Len(q) : q[j] = 38}}

PairAt(q, st) ==
  SubSeq(q, st, FirstIn({i \in st..Len(q) : q[i] = 38} \cup {Len(q) + 1}) - 1)

EqPos(p) == {i \in 1..Len(p) : p[i] = 61}

KeyOf(p) == IF EqPos(p) = {} THEN p ELSE SubSeq(p, 1, FirstIn(EqPos(p)) - 1)

ValOf(p) == IF EqPos(p) = {} THEN <<>> ELSE SubSeq(p, FirstIn(EqPos(p)) + 1, Len(p))

Nth(S, j) == CHOOSE x \in S : Cardinality({y \in S : y <= x}) = j

C7_QueryMapping ==
  /\ (result.kind = "Ok" /\ result.query_string.present) =>
       LET q == result.query_string.raw
           data == result.query_string.data
       IN /\ DOMAIN data = {KeyOf(PairAt(q, st)) : st \in PairStarts(q)}
          /\ \A k \in DOMAIN data :
               LET S == {st \in PairStarts(q) : KeyOf(PairAt(q, st)) = k}
                   n == Cardinality(S)
               IN /\ Len(data[k].vals) = n
                  /\ data[k].tag = (IF n = 1 THEN "Single" ELSE "Multiple")
                  /\ \A j \in 1..n : data[k].vals[j] = ValOf(PairAt(q, Nth(S, j)))
  /\ (/\ Parsed
      /\ from_utf8_ok(buf)
      /\ Scan3(buf).kind = "Some"
      /\ Scan3(buf).word = HTTP11
      /\ Scan1(buf).word \in Methods
      /\ 63 \in Range(Scan2(buf).word)) =>
       /\ result.kind = "Ok"
       /\ result.query_string.present
       /\ result.query_string.raw =
            SubSeq(Scan2(buf).word, FirstIn(IndexesOf(Scan2(buf).word, 63)) + 1,
                   Len(Scan2(buf).word))

C7_Witness ==
  /\ result.kind = "Ok"
  /\ result.query_string.present
  /\ \E k \in DOMAIN result.query_string.data :
       /\ result.query_string.data[k].tag = "Multiple"
       /\ Len(result.query_string.data[k].vals) = 3
       /\ result.query_string.data[k].vals[1] = <<>>
       /\ 61 \in Range(result.query_string.data[k].vals[3])

\* C8 (as stated): whenever one of the three tokens is absent or empty the
\* result is InvalidRequest, so no returned Request has an empty path.
TokenAbsent(b) ==
  \/ Scan1(b).kind = "None"
  \/ Scan2(b).kind = "None"
  \/ Scan3(b).kind = "None"

TokenEmpty(b) ==
  /\ Scan3(b).kind = "Some"
  /\ (Scan1(b).word = <<>> \/ Scan2(b).word = <<>> \/ Scan3(b).word = <<>>)

C8_MissingTokenInvalidRequest ==
  (Parsed /\ from_utf8_ok(buf)) =>
    /\ (TokenAbsent(buf) \/ TokenEmpty(buf)) => result = Err("InvalidRequest")
    /\ result.kind = "Ok" => Scan2(buf).word # <<>>

\* C8 (amended): the result is InvalidRequest exactly when the input is valid
\* UTF-8 and one of the three scans finds no delimiter; an empty token is not
\* rejected as such: an empty protocol token gives InvalidProtocol, an empty
\* method token before HTTP/1.1 gives InvalidMethod, and an empty path token
\* between a verb and HTTP/1.1 gives a Request whose path is empty.
C8_AbsentTokenInvalidRequest ==
  Parsed =>
    /\ result = Err("InvalidRequest") <=> (from_utf8_ok(buf) /\ TokenAbsent(buf))
    /\ (from_utf8_ok(buf) /\ Scan3(buf).kind = "Some") =>
         /\ Scan3(buf).word = <<>> => result = Err("InvalidProtocol")
         /\ (Scan3(buf).word = HTTP11 /\ Scan1(buf).word = <<>>) =>
              result = Err("InvalidMethod")
         /\ (Scan3(buf).word = HTTP11 /\ Scan1(buf).word \in Methods
               /\ Scan2(buf).word = <<>>) =>
              result = Ok(Scan1(buf).word, <<>>, NoQuery)

C8_Witness ==
  /\ result.kind = "Ok"
  /\ result.path = <<>>
  /\ Scan2(buf).word = <<>>

----
(* Server::run: accept, read into a fresh buffer, parse, dispatch, send.   *)
(* nread is the value of stream.read (-1: no successful read), request the *)
(* bytes the peer delivered, calls the Handler operations invoked and sent *)
(* the send attempts for the current connection, out the lines printed by  *)
(* the last step.                                                          *)
Zeros == [i \in 1..BUFFER_SIZE |-> 0]

ServerInputs ==
  {<<>>,
   GET,
   GET \o <<SP, 47, 97, SP>> \o HTTP11 \o <<CR>> \o LF,
   GET \o <<SP, 47, 115, QMARK, 107, EQ, 118, SP>> \o HTTP11 \o <<CR>> \o LF,
   GET \o <<SP, 47, 97, SP>> \o HTTP10 \o <<CR>> \o LF,
   <<70, 79, 79, SP, 47, SP>> \o HTTP11 \o <<CR>> \o LF,
   GET \o <<SP, 47>> \o BADBYTE \o <<SP>> \o HTTP11 \o <<CR>> \o LF,
   EACUTE \o <<SP, 47, SP>> \o HTTP11 \o <<CR>> \o LF}

ParserIdle == buf = <<>> /\ result = NotParsed /\ text = <<>> /\ word = NoWord

InitServer ==
  /\ ParserIdle
  /\ ServerIdle

\* variant: the buffer of the previous connection is reused
AcceptOk_reuse_buffer ==
  /\ pc = "accept"
  /\ conns < MaxConns
  /\ conns' = conns + 1
  /\ buffer' = IF buffer = <<>> THEN Zeros ELSE buffer
  /\ nread' = -1
  /\ request' = <<>>
  /\ outcome' = NotParsed
  /\ calls' = <<>>
  /\ sent' = 0
  /\ out' = <<>>
  /\ pc' = "read"
  /\ UNCHANGED parserVars

\* line 39-41: accept succeeds, a new zero-filled buffer is created
AcceptOk ==
  /\ pc = "accept"
  /\ conns < MaxConns
  /\ conns' = conns + 1
  /\ buffer' = Zeros
  /\ nread' = -1
  /\ request' = <<>>
  /\ outcome' = NotParsed
  /\ calls' = <<>>
  /\ sent' = 0
  /\ out' = <<>>
  /\ pc' = "read"
  /\ UNCHANGED parserVars

\* line 64: accept fails, the loop goes on
AcceptFail ==
  /\ pc = "accept"
  /\ out' = <<"Failed to establish a connection">>
  /\ pc' = "accept"
  /\ UNCHANGED <<buffer, nread, request, conns, outcome, calls, sent>>
  /\ UNCHANGED parserVars

\* line 43-46: read stores the delivered bytes at the start of the buffer
ReadOk ==
  /\ pc = "read"
  /\ \E data \in ServerInputs :
       /\ request' = data
       /\ nread' = Len(data)
       /\ buffer' = [i \in 1..BUFFER_SIZE |-> IF i <= Len(data) THEN data[i] ELSE buffer[i]]
  /\ out' = <<"Received a request">>
  /\ pc' = "parse"
  /\ UNCHANGED <<conns, outcome, calls, sent>>
  /\ UNCHANGED parserVars

\* line 59, 62: read fails
ReadFail ==
  /\ pc = "read"
  /\ out' = <<"Failed to read from connection", "OK">>
  /\ pc' = "accept"
  /\ UNCHANGED <<buffer, nread, request, conns, outcome, calls, sent>>
  /\ UNCHANGED parserVars

\* line 49: Request::try_from(&buffer[..]); a panic unwinds out of run
Parse ==
  /\ pc = "parse"
  /\ outcome' = try_from(buffer)
  /\ pc' = IF outcome'.kind = "Panic" THEN "aborted" ELSE "dispatch"
  /\ out' = <<>>
  /\ UNCHANGED <<buffer, nread, request, conns, calls, sent>>
  /\ UNCHANGED parserVars

\* line 50-51: the handler turns the parse result into a response
Dispatch ==
  /\ pc = "dispatch"
  /\ calls' = Append(calls, IF outcome.kind = "Ok" THEN "handle_request"
                            ELSE "handle_bad_request")
  /\ pc' = "send"
  /\ UNCHANGED <<buffer, nread, request, conns, outcome, sent, out>>
  /\ UNCHANGED parserVars

\* line 55, 62: response.send succeeds
SendOk ==
  /\ pc = "send"
  /\ sent' = sent + 1
  /\ out' = <<"OK">>
  /\ pc' = "accept"
  /\ UNCHANGED <<buffer, nread, request, conns, outcome, calls>>
  /\ UNCHANGED parserVars

\* line 55-57, 62: response.send fails
SendFail ==
  /\ pc = "send"
  /\ sent' = sent + 1
  /\ out' = <<"Failed to send response", "OK">>
  /\ pc' = "accept"
  /\ UNCHANGED <<buffer, nread, request, conns, outcome, calls>>
  /\ UNCHANGED parserVars

NextServer ==
  \/ AcceptOk
  \/ AcceptFail
  \/ ReadOk
  \/ ReadFail
  \/ Parse
  \/ Dispatch
  \/ SendOk
  \/ SendFail

ServerSpec == InitServer /\ [][NextServer]_vars

----
\* C6: every accepted connection whose read succeeds goes through exactly one
\* parse, one handler call (handle_request iff a Request was parsed,
\* handle_bad_request iff a ParseError) and one send attempt, in that order,
\* before the loop is back at accept.
C6_OneCyclePerConnection ==
  /\ pc = "dispatch" => (calls = <<>> /\ sent = 0)
  /\ pc = "send" => (Len(calls) = 1 /\ sent = 0)
  /\ (pc \in {"accept", "aborted"} /\ nread >= 0) =>
       /\ Len(calls) = 1
       /\ sent = 1
       /\ calls[1] = "handle_request" <=> outcome.kind = "Ok"
       /\ calls[1] = "handle_bad_request" <=> outcome.kind = "Err"

\* C10: a failed accept, read or send leads back to accept; after a failed
\* read nothing was parsed, no handler ran and nothing was sent; the buffer
\* parsed holds the bytes of the current connection followed by zeros only.
Padded(data) == data \o [i \in 1..(1024 - Len(data)) |-> 0]

C10_LoopSurvivesFailures ==
  /\ [](pc \in {"parse", "dispatch", "send", "aborted"} => buffer = Padded(request))
  /\ []((pc \in {"dispatch", "send", "aborted"}) => outcome = try_from(Padded(request)))
  /\ [](nread = -1 => (outcome = NotParsed /\ calls = <<>> /\ sent = 0))
  /\ [][/\ (pc = "accept" /\ pc' # "read") => pc' = "accept"
        /\ (pc = "read" /\ pc' # "parse") => (pc' = "accept" /\ nread' = -1)
        /\ pc = "send" => (pc' = "accept" /\ sent' = 1)]_vars

C10_Witness ==
  /\ conns = 2
  /\ pc = "accept"
  /\ nread = -1
  /\ out = <<"Failed to read from connection", "OK">>

====
